---- MODULE Spec2Model ----
(***************************************************************************)
(* visionMix canvas editor: the layer store, the undo/redo history hook    *)
(* (hooks/useCanvasHistory) and the pointer interaction state machine of   *)
(* App.tsx.                                                                *)
(*                                                                         *)
(* Representation of JavaScript values                                     *)
(*   - lengths (layer.x, layer.y, pointer coordinates, distances) are      *)
(*     integers in tenths of a pixel; image sizes (originalWidth,          *)
(*     originalHeight) are whole pixels;                                   *)
(*   - layer.scale is an integer in thousandths (1000 is scale 1, 100 is   *)
(*     the floor 0.1);                                                     *)
(*   - an array (CanvasLayer[]) is a record [ref, arr]: arr is its         *)
(*     content and ref its object identity, so that `a !== b` of the code  *)
(*     is a.ref # b.ref.  Every map/filter/spread of the code allocates a  *)
(*     new array, hence a new ref;                                         *)
(*   - every handler runs on the state of the latest render: React         *)
(*     re-renders between two events, so the `layers`, `history` and       *)
(*     `redoStack` a handler closes over are the live ones.                *)
(***************************************************************************)
EXTENDS Integers, Sequences, FiniteSets, TLC

VARIABLES
    layers,            \* App: useState<CanvasLayer[]>, the live array object
    selectedLayerId,   \* App: useState<string | null>
    history,           \* useCanvasHistory: past stack (oldest first)
    redoStack,         \* useCanvasHistory: future stack
    activeOperation,   \* App: 'none' | 'drag' | 'resize'
    interactionStart,  \* App: interactionStartRef.current
    pending,           \* image files being read/decoded (FileReader + Image)
    last,              \* observer: the last handler run, what undo/redo
                       \* returned, the stack lengths before it ran and
                       \* the arguments of a pointer-move, a reorder, a
                       \* removal, a centering or a slider change
    edits,             \* observer: number of edits so far (recordState calls,
                       \* slider changes and service requests started),
                       \* which the bounds cap
    stage,             \* App: useState<WorkflowStage>
    activeTaskType,    \* App: 'generate' | 'edit' | 'clean' | '3d'
    isImproving,       \* App: useState(false)
    error,             \* App: useState<AppError | null>
    lastResult,        \* App: useState<string | null>
    timers,            \* the setTimeout callbacks of generateError not yet
                       \* run, each tagged with the id of the error that set it
    loading,           \* project files being read (loadProject promises)
    requests           \* calls to the generation service not yet settled

\* the state of the workflow and of the project loader
workflowVars == <<stage, activeTaskType, isImproving, error, lastResult,
                  timers, loading, requests>>

vars == <<layers, selectedLayerId, history, redoStack, activeOperation,
          interactionStart, pending, last, edits, stage, activeTaskType,
          isImproving, error, lastResult, timers, loading, requests>>

(***************************************************************************)
(* Program constants                                                       *)
(***************************************************************************)
HISTORY_LIMIT == 15
CANVAS_SIZE == 600
MIN_VISIBLE_PX == 40
maxDim == 250

(***************************************************************************)
(* Bounds of the model                                                     *)
(***************************************************************************)
\* Spec: edits (recordState calls and slider changes) in one run
MaxEdits == 2
\* SpecHistory, SpecStacks: recordState calls in one run, more than the
\* capacity of the past stack
LongRun == 17

\* null as a value of an object type (an array, a layer)
Null == [null |-> TRUE]
\* null as a value of `string | null`
NullId == "null"

Min(a, b) == IF a < b THEN a ELSE b
Max(a, b) == IF a > b THEN a ELSE b

\* n pixels in tenths of a pixel
Px(n) == n * 10

(***************************************************************************)
(* Object identity of arrays and layer ids                                 *)
(***************************************************************************)
\* the array objects the program still references
ReferencedArrays ==
    {layers, interactionStart.initialLayers}
        \cup {history[i] : i \in 1..Len(history)}
        \cup {redoStack[i] : i \in 1..Len(redoStack)}
        \cup {requests[i].layers :
                  i \in {j \in 1..Len(requests) : requests[j].call = "execute"}}

UsedRefs == {a.ref : a \in ReferencedArrays}

\* a newly allocated array: its identity differs from every referenced one
NewArray(arr) ==
    [ref |-> CHOOSE n \in 0..Cardinality(UsedRefs) :
                 n \notin UsedRefs /\ \A m \in 0..(n - 1) : m \in UsedRefs,
     arr |-> arr]

UsedIds == UNION {{a.arr[i].id : i \in 1..Len(a.arr)} : a \in ReferencedArrays}

\* Math.random().toString(36).substr(2, 9): an id no referenced layer carries
NewId ==
    ToString(CHOOSE n \in 1..(Cardinality(UsedIds) + 1) :
                 ToString(n) \notin UsedIds
                     /\ \A m \in 1..(n - 1) : ToString(m) \in UsedIds)

(***************************************************************************)
(* hooks/useCanvasHistory                                                  *)
(***************************************************************************)
\* recordState(layers): the new (history, redoStack)
recordState_DropNewest(hist, fut, snap) ==
    [history |-> IF Len(hist) + 1 > HISTORY_LIMIT THEN hist ELSE Append(hist, snap),
     redoStack |-> <<>>]

recordState_KeepRedo(hist, fut, snap) ==
    LET newHistory == Append(hist, snap) IN
    [history |-> IF Len(newHistory) > HISTORY_LIMIT THEN Tail(newHistory)
                 ELSE newHistory,
     redoStack |-> fut]

recordState_Unbounded(hist, fut, snap) ==
    [history |-> Append(hist, snap), redoStack |-> <<>>]

recordState(hist, fut, snap) ==
    LET newHistory == Append(hist, snap) IN
    [history |-> IF Len(newHistory) > HISTORY_LIMIT THEN Tail(newHistory)
                 ELSE newHistory,
     redoStack |-> <<>>]

\* undo(currentLayers): the new (history, redoStack) and the return value
undo_ReturnsCurrent(hist, fut, currentLayers) ==
    IF Len(hist) = 0
    THEN [history |-> hist, redoStack |-> fut, ret |-> Null]
    ELSE [history |-> SubSeq(hist, 1, Len(hist) - 1),
          redoStack |-> Append(fut, hist[Len(hist)]),
          ret |-> currentLayers]

undo_PopsOldest(hist, fut, currentLayers) ==
    IF Len(hist) = 0
    THEN [history |-> hist, redoStack |-> fut, ret |-> Null]
    ELSE [history |-> Tail(hist),
          redoStack |-> Append(fut, currentLayers),
          ret |-> Head(hist)]

undo(hist, fut, currentLayers) ==
    IF Len(hist) = 0
    THEN [history |-> hist, redoStack |-> fut, ret |-> Null]
    ELSE [history |-> SubSeq(hist, 1, Len(hist) - 1),
          redoStack |-> Append(fut, currentLayers),
          ret |-> hist[Len(hist)]]

\* redo(currentLayers): the new (history, redoStack) and the return value
redo_PushesNext(hist, fut, currentLayers) ==
    IF Len(fut) = 0
    THEN [history |-> hist, redoStack |-> fut, ret |-> Null]
    ELSE [history |-> Append(hist, fut[Len(fut)]),
          redoStack |-> SubSeq(fut, 1, Len(fut) - 1),
          ret |-> fut[Len(fut)]]

redo_EmptyPushes(hist, fut, currentLayers) ==
    IF Len(fut) = 0
    THEN [history |-> Append(hist, currentLayers), redoStack |-> fut, ret |-> Null]
    ELSE [history |-> Append(hist, currentLayers),
          redoStack |-> SubSeq(fut, 1, Len(fut) - 1),
          ret |-> fut[Len(fut)]]

redo(hist, fut, currentLayers) ==
    IF Len(fut) = 0
    THEN [history |-> hist, redoStack |-> fut, ret |-> Null]
    ELSE [history |-> Append(hist, currentLayers),
          redoStack |-> SubSeq(fut, 1, Len(fut) - 1),
          ret |-> fut[Len(fut)]]

canUndo == Len(history) > 0
canRedo == Len(redoStack) > 0

\* the observer's record of a handler run: its name, what undo/redo returned,
\* whether it called recordState, and the stack lengths before it ran
Ran(op, ret, rec) ==
    [op |-> op, ret |-> ret, rec |-> rec, h |-> Len(history), r |-> Len(redoStack)]

(***************************************************************************)
(* Geometry                                                                *)
(***************************************************************************)
\* layer.originalWidth * layer.scale, in tenths of a pixel
currentWidth(layer) == (layer.originalWidth * layer.scale) \div 100
currentHeight(layer) == (layer.originalHeight * layer.scale) \div 100

\* Math.sqrt on a non-negative integer, rounded down (exact on squares)
RECURSIVE SqrtBetween(_, _, _)
SqrtBetween(n, lo, hi) ==
    IF lo >= hi THEN lo
    ELSE LET mid == (lo + hi + 1) \div 2 IN
         IF mid * mid <= n THEN SqrtBetween(n, mid, hi)
         ELSE SqrtBetween(n, lo, mid - 1)

Sqrt(n) == SqrtBetween(n, 0, 40000)

\* canvasRef.current.getBoundingClientRect(): where the canvas sits in the page
canvasRect == [left |-> 200, top |-> 1000]

getCanvasCoordinates(e) ==
    [x |-> e.clientX - canvasRect.left, y |-> e.clientY - canvasRect.top]

\* layers.find(l => l.id === id); Null when there is none
find(arr, id) ==
    IF \E i \in 1..Len(arr) : arr[i].id = id
    THEN arr[CHOOSE i \in 1..Len(arr) :
                 arr[i].id = id /\ \A j \in 1..(i - 1) : arr[j].id # id]
    ELSE Null

\* prev.findIndex(l => l.id === id), 1-based; 0 when there is none
findIndex(arr, id) ==
    IF \E i \in 1..Len(arr) : arr[i].id = id
    THEN CHOOSE i \in 1..Len(arr) :
             arr[i].id = id /\ \A j \in 1..(i - 1) : arr[j].id # id
    ELSE 0

\* prev.filter(keep)
RECURSIVE filterOut(_, _)
filterOut(arr, id) ==
    IF arr = <<>> THEN <<>>
    ELSE IF Head(arr).id = id THEN filterOut(Tail(arr), id)
    ELSE <<Head(arr)>> \o filterOut(Tail(arr), id)

\* { ...l, ...updates }
merge(l, updates) ==
    [f \in DOMAIN l \cup DOMAIN updates |->
        IF f \in DOMAIN updates THEN updates[f] ELSE l[f]]

(***************************************************************************)
(* App: initial state                                                      *)
(***************************************************************************)
Init ==
    /\ layers = [ref |-> 0, arr |-> <<>>]
    /\ selectedLayerId = NullId
    /\ history = <<>>
    /\ redoStack = <<>>
    /\ activeOperation = "none"
    /\ interactionStart =
           [startX |-> 0, startY |-> 0, initialX |-> 0, initialY |-> 0,
            initialScale |-> 1000, initialDistance |-> 0,
            initialLayers |-> [ref |-> 1, arr |-> <<>>]]
    /\ pending = <<>>
    /\ last = [op |-> "init", ret |-> Null, rec |-> FALSE, h |-> 0, r |-> 0]
    /\ edits = 0
    /\ stage = "idle"
    /\ activeTaskType = "generate"
    /\ isImproving = FALSE
    /\ error = Null
    /\ lastResult = NullId
    /\ timers = <<>>
    /\ loading = <<>>
    /\ requests = <<>>

(***************************************************************************)
(* App: undo / redo                                                        *)
(***************************************************************************)
handleUndo ==
    LET u == undo(history, redoStack, layers) IN
    /\ history' = u.history
    /\ redoStack' = u.redoStack
    /\ IF u.ret # Null
       THEN /\ layers' = u.ret
            /\ selectedLayerId' =
                   IF selectedLayerId # NullId /\ find(u.ret.arr, selectedLayerId) = Null
                   THEN NullId ELSE selectedLayerId
       ELSE UNCHANGED <<layers, selectedLayerId>>
    /\ last' = Ran("undo", u.ret, FALSE)
    /\ UNCHANGED <<activeOperation, interactionStart, pending, edits>>
    /\ UNCHANGED workflowVars

handleRedo ==
    LET n == redo(history, redoStack, layers) IN
    /\ history' = n.history
    /\ redoStack' = n.redoStack
    /\ IF n.ret # Null THEN layers' = n.ret ELSE UNCHANGED layers
    /\ last' = Ran("redo", n.ret, FALSE)
    /\ UNCHANGED <<selectedLayerId, activeOperation, interactionStart, pending, edits>>
    /\ UNCHANGED workflowVars

(***************************************************************************)
(* App: asset import                                                       *)
(***************************************************************************)
\* the change event of the "Add Asset" input; files: the chosen image files
handleFileChange(files) ==
    LET rs == recordState(history, redoStack, layers) IN
    /\ history' = rs.history
    /\ redoStack' = rs.redoStack
    /\ pending' = pending \o files
    /\ edits' = edits + 1
    /\ last' = Ran("fileChange", Null, TRUE)
    /\ UNCHANGED <<layers, selectedLayerId, activeOperation, interactionStart>>
    /\ UNCHANGED workflowVars

\* Math.min(1, maxDim / Math.max(img.width, img.height)), in thousandths
initialScale_NoCap(w, h) == (maxDim * 1000) \div Max(w, h)

initialScale(w, h) ==
    IF Max(w, h) <= maxDim THEN 1000 ELSE (maxDim * 1000) \div Max(w, h)

newLayer(img, id, zIndex, jitterX, jitterY) ==
    LET scale == initialScale(img.w, img.h) IN
    [id |-> id,
     url |-> img.url,
     x |-> Px(CANVAS_SIZE) \div 2 - (img.w * scale) \div 200 + jitterX,
     y |-> Px(CANVAS_SIZE) \div 2 - (img.h * scale) \div 200 + jitterY,
     scale |-> scale,
     rotation |-> 0,
     zIndex |-> zIndex,
     aspectRatio |-> <<img.w, img.h>>,
     originalWidth |-> img.w,
     originalHeight |-> img.h]

\* reader.onloadend then img.onload of the i-th file in flight
imgOnload(i, jitterX, jitterY) ==
    LET newId == NewId IN
    /\ i \in 1..Len(pending)
    /\ layers' = NewArray(Append(layers.arr,
                     newLayer(pending[i], newId, Len(layers.arr) + 1, jitterX, jitterY)))
    /\ selectedLayerId' = newId
    /\ pending' = SubSeq(pending, 1, i - 1) \o SubSeq(pending, i + 1, Len(pending))
    /\ last' = Ran("imgOnload", Null, FALSE)
    /\ UNCHANGED <<history, redoStack, activeOperation, interactionStart, edits>>
    /\ UNCHANGED workflowVars

(***************************************************************************)
(* App: pointer interaction                                                *)
(***************************************************************************)
\* e: the pointer event [clientX, clientY]; layer: the rendered layer hit
handleLayerPointerDown(e, layer) ==
    /\ selectedLayerId' = layer.id
    /\ activeOperation' = "drag"
    /\ interactionStart' =
           [startX |-> e.clientX, startY |-> e.clientY,
            initialX |-> layer.x, initialY |-> layer.y,
            initialScale |-> layer.scale,
            initialDistance |-> 0,
            initialLayers |-> layers]
    /\ last' = Ran("layerPointerDown", Null, FALSE)
    /\ UNCHANGED <<layers, history, redoStack, pending, edits>>
    /\ UNCHANGED workflowVars

handleResizePointerDown(e, layer) ==
    LET coords == getCanvasCoordinates(e)
        dx == coords.x - layer.x
        dy == coords.y - layer.y
        dist == Sqrt(dx * dx + dy * dy)
    IN
    /\ selectedLayerId' = layer.id
    /\ activeOperation' = "resize"
    /\ interactionStart' =
           [startX |-> e.clientX, startY |-> e.clientY,
            initialX |-> layer.x, initialY |-> layer.y,
            initialScale |-> layer.scale,
            initialDistance |-> dist,
            initialLayers |-> layers]
    /\ last' = Ran("resizePointerDown", Null, FALSE)
    /\ UNCHANGED <<layers, history, redoStack, pending, edits>>
    /\ UNCHANGED workflowVars

\* the drag branch's map callback on one layer
dragLayer_NoClamp(layer, dx, dy) ==
    [layer EXCEPT !.x = interactionStart.initialX + dx,
                  !.y = interactionStart.initialY + dy]

dragLayer_FromPreviousMove(layer, dx, dy) ==
    LET maxX == Px(CANVAS_SIZE) - Px(MIN_VISIBLE_PX)
        minX == Px(MIN_VISIBLE_PX) - currentWidth(layer)
        maxY == Px(CANVAS_SIZE) - Px(MIN_VISIBLE_PX)
        minY == Px(MIN_VISIBLE_PX) - currentHeight(layer)
    IN [layer EXCEPT !.x = Max(minX, Min(layer.x + dx, maxX)),
                     !.y = Max(minY, Min(layer.y + dy, maxY))]

dragLayer(layer, dx, dy) ==
    LET newX == interactionStart.initialX + dx
        newY == interactionStart.initialY + dy
        maxX == Px(CANVAS_SIZE) - Px(MIN_VISIBLE_PX)
        minX == Px(MIN_VISIBLE_PX) - currentWidth(layer)
        maxY == Px(CANVAS_SIZE) - Px(MIN_VISIBLE_PX)
        minY == Px(MIN_VISIBLE_PX) - currentHeight(layer)
    IN [layer EXCEPT !.x = Max(minX, Min(newX, maxX)),
                     !.y = Max(minY, Min(newY, maxY))]

\* Math.max(0.1, initialScale * (currentDistance / initialDistance))
safeScale_NoFloor(currentDistance) ==
    (interactionStart.initialScale * currentDistance)
        \div interactionStart.initialDistance

safeScale(currentDistance) ==
    Max(100, (interactionStart.initialScale * currentDistance)
                 \div interactionStart.initialDistance)

\* the array a pointer-move passes to setLayers, as [arr |-> content], or
\* Null when the handler calls no setLayers
pointerMoveResult_NoZeroGuard(e) ==
    IF selectedLayerId = NullId THEN Null
    ELSE IF activeOperation = "drag" THEN
        LET dx == e.clientX - interactionStart.startX
            dy == e.clientY - interactionStart.startY
        IN [arr |-> [i \in 1..Len(layers.arr) |->
                        IF layers.arr[i].id = selectedLayerId
                        THEN dragLayer(layers.arr[i], dx, dy)
                        ELSE layers.arr[i]]]
    ELSE IF activeOperation = "resize" THEN
        LET selectedLayer == find(layers.arr, selectedLayerId) IN
        IF selectedLayer = Null THEN Null
        ELSE LET coords == getCanvasCoordinates(e)
                 dx == coords.x - selectedLayer.x
                 dy == coords.y - selectedLayer.y
                 currentDistance == Sqrt(dx * dx + dy * dy)
                 newScale == IF interactionStart.initialDistance > 0
                             THEN safeScale(currentDistance)
                             ELSE 100
             IN [arr |-> [i \in 1..Len(layers.arr) |->
                     IF layers.arr[i].id = selectedLayerId
                     THEN [layers.arr[i] EXCEPT !.scale = newScale]
                     ELSE layers.arr[i]]]
    ELSE Null

pointerMoveResult_DragsEveryLayer(e) ==
    IF selectedLayerId = NullId THEN Null
    ELSE IF activeOperation = "drag" THEN
        LET dx == e.clientX - interactionStart.startX
            dy == e.clientY - interactionStart.startY
        IN [arr |-> [i \in 1..Len(layers.arr) |->
                        dragLayer(layers.arr[i], dx, dy)]]
    ELSE IF activeOperation = "resize" THEN
        LET selectedLayer == find(layers.arr, selectedLayerId) IN
        IF selectedLayer = Null THEN Null
        ELSE LET coords == getCanvasCoordinates(e)
                 dx == coords.x - selectedLayer.x
                 dy == coords.y - selectedLayer.y
                 currentDistance == Sqrt(dx * dx + dy * dy)
             IN IF interactionStart.initialDistance > 0
                THEN [arr |-> [i \in 1..Len(layers.arr) |->
                         IF layers.arr[i].id = selectedLayerId
                         THEN [layers.arr[i] EXCEPT !.scale = safeScale(currentDistance)]
                         ELSE layers.arr[i]]]
                ELSE Null
    ELSE Null

pointerMoveResult(e) ==
    IF selectedLayerId = NullId THEN Null
    ELSE IF activeOperation = "drag" THEN
        LET dx == e.clientX - interactionStart.startX
            dy == e.clientY - interactionStart.startY
        IN [arr |-> [i \in 1..Len(layers.arr) |->
                        IF layers.arr[i].id = selectedLayerId
                        THEN dragLayer(layers.arr[i], dx, dy)
                        ELSE layers.arr[i]]]
    ELSE IF activeOperation = "resize" THEN
        LET selectedLayer == find(layers.arr, selectedLayerId) IN
        IF selectedLayer = Null THEN Null
        ELSE LET coords == getCanvasCoordinates(e)
                 dx == coords.x - selectedLayer.x
                 dy == coords.y - selectedLayer.y
                 currentDistance == Sqrt(dx * dx + dy * dy)
             IN IF interactionStart.initialDistance > 0
                THEN [arr |-> [i \in 1..Len(layers.arr) |->
                         IF layers.arr[i].id = selectedLayerId
                         THEN [layers.arr[i] EXCEPT !.scale = safeScale(currentDistance)]
                         ELSE layers.arr[i]]]
                ELSE Null
    ELSE Null

handleCanvasPointerMove(e) ==
    LET res == pointerMoveResult(e) IN
    /\ IF res = Null THEN UNCHANGED layers ELSE layers' = NewArray(res.arr)
    /\ last' = [op |-> "pointerMove", ret |-> Null, rec |-> FALSE,
                h |-> Len(history), r |-> Len(redoStack), e |-> e]
    /\ UNCHANGED <<selectedLayerId, history, redoStack, activeOperation,
                   interactionStart, pending, edits>>
    /\ UNCHANGED workflowVars

\* `initialLayers !== layers`: the session replaced the live array
sessionChanged_Never == FALSE

sessionChanged == interactionStart.initialLayers.ref # layers.ref

\* onPointerUp and onPointerLeave of the canvas; op names the event
handleCanvasPointerUp_LeaveKeepsSession(op) ==
    /\ IF op = "pointerUp" /\ activeOperation # "none" /\ sessionChanged
       THEN LET rs == recordState(history, redoStack, interactionStart.initialLayers) IN
            /\ history' = rs.history
            /\ redoStack' = rs.redoStack
            /\ edits' = edits + 1
       ELSE UNCHANGED <<history, redoStack, edits>>
    /\ activeOperation' = IF op = "pointerUp" THEN "none" ELSE activeOperation
    /\ last' = Ran(op, Null, op = "pointerUp" /\ activeOperation # "none" /\ sessionChanged)
    /\ UNCHANGED <<layers, selectedLayerId, interactionStart, pending>>
    /\ UNCHANGED workflowVars

handleCanvasPointerUp(op) ==
    /\ IF activeOperation # "none" /\ sessionChanged
       THEN LET rs == recordState(history, redoStack, interactionStart.initialLayers) IN
            /\ history' = rs.history
            /\ redoStack' = rs.redoStack
            /\ edits' = edits + 1
       ELSE UNCHANGED <<history, redoStack, edits>>
    /\ activeOperation' = "none"
    /\ last' = Ran(op, Null, activeOperation # "none" /\ sessionChanged)
    /\ UNCHANGED <<layers, selectedLayerId, interactionStart, pending>>
    /\ UNCHANGED workflowVars

(***************************************************************************)
(* App: layer store                                                        *)
(***************************************************************************)
\* LayerPanel onSelect
setSelectedLayerId(id) ==
    /\ selectedLayerId' = id
    /\ last' = Ran("select", Null, FALSE)
    /\ UNCHANGED <<layers, history, redoStack, activeOperation, interactionStart,
                   pending, edits>>
    /\ UNCHANGED workflowVars

\* the sliders: updates is the record of the fields to set
updateLayer_Snapshots(id, updates) ==
    LET rs == recordState(history, redoStack, layers) IN
    /\ history' = rs.history
    /\ redoStack' = rs.redoStack
    /\ layers' = NewArray([i \in 1..Len(layers.arr) |->
                     IF layers.arr[i].id = id
                     THEN merge(layers.arr[i], updates)
                     ELSE layers.arr[i]])
    /\ edits' = edits + 1
    /\ last' = [op |-> "updateLayer", ret |-> Null, rec |-> FALSE,
                h |-> Len(history), r |-> Len(redoStack),
                id |-> id, updates |-> updates]
    /\ UNCHANGED <<selectedLayerId, activeOperation, interactionStart, pending>>
    /\ UNCHANGED workflowVars

updateLayer(id, updates) ==
    /\ layers' = NewArray([i \in 1..Len(layers.arr) |->
                     IF layers.arr[i].id = id
                     THEN merge(layers.arr[i], updates)
                     ELSE layers.arr[i]])
    /\ edits' = edits + 1
    /\ last' = [op |-> "updateLayer", ret |-> Null, rec |-> FALSE,
                h |-> Len(history), r |-> Len(redoStack),
                id |-> id, updates |-> updates]
    /\ UNCHANGED <<selectedLayerId, history, redoStack, activeOperation,
                   interactionStart, pending>>
    /\ UNCHANGED workflowVars

removeLayer_AlwaysDeselects(id) ==
    LET rs == recordState(history, redoStack, layers) IN
    /\ history' = rs.history
    /\ redoStack' = rs.redoStack
    /\ edits' = edits + 1
    /\ layers' = NewArray(filterOut(layers.arr, id))
    /\ selectedLayerId' = NullId
    /\ last' = [op |-> "removeLayer", ret |-> Null, rec |-> TRUE,
                h |-> Len(history), r |-> Len(redoStack), id |-> id]
    /\ UNCHANGED <<activeOperation, interactionStart, pending>>
    /\ UNCHANGED workflowVars

removeLayer(id) ==
    LET rs == recordState(history, redoStack, layers) IN
    /\ history' = rs.history
    /\ redoStack' = rs.redoStack
    /\ edits' = edits + 1
    /\ layers' = NewArray(filterOut(layers.arr, id))
    /\ selectedLayerId' = IF selectedLayerId = id THEN NullId ELSE selectedLayerId
    /\ last' = [op |-> "removeLayer", ret |-> Null, rec |-> TRUE,
                h |-> Len(history), r |-> Len(redoStack), id |-> id]
    /\ UNCHANGED <<activeOperation, interactionStart, pending>>
    /\ UNCHANGED workflowVars

\* the updater of reorderLayer: the new array as [arr |-> content], or Null
\* for `return prev` (the same array object)
reorder_KeepsZIndex(arr, id, direction) ==
    LET index == findIndex(arr, id)
        swap(a, i, j) == [k \in 1..Len(a) |->
                             IF k = i THEN a[j] ELSE IF k = j THEN a[i] ELSE a[k]]
    IN IF index = 0 THEN Null
       ELSE [arr |->
                IF direction = "up" /\ index < Len(arr) THEN swap(arr, index, index + 1)
                ELSE IF direction = "down" /\ index > 1 THEN swap(arr, index, index - 1)
                ELSE arr]

reorder_WrapsAround(arr, id, direction) ==
    LET index == findIndex(arr, id)
        swap(a, i, j) == [k \in 1..Len(a) |->
                             IF k = i THEN a[j] ELSE IF k = j THEN a[i] ELSE a[k]]
        newLayers ==
            IF direction = "up"
            THEN swap(arr, index, IF index < Len(arr) THEN index + 1 ELSE 1)
            ELSE swap(arr, index, IF index > 1 THEN index - 1 ELSE Len(arr))
    IN IF index = 0 THEN Null
       ELSE [arr |-> [k \in 1..Len(newLayers) |-> [newLayers[k] EXCEPT !.zIndex = k]]]

reorder(arr, id, direction) ==
    LET index == findIndex(arr, id)
        swap(a, i, j) == [k \in 1..Len(a) |->
                             IF k = i THEN a[j] ELSE IF k = j THEN a[i] ELSE a[k]]
        newLayers ==
            IF direction = "up" /\ index < Len(arr) THEN swap(arr, index, index + 1)
            ELSE IF direction = "down" /\ index > 1 THEN swap(arr, index, index - 1)
            ELSE arr
    IN IF index = 0 THEN Null
       ELSE [arr |-> [k \in 1..Len(newLayers) |-> [newLayers[k] EXCEPT !.zIndex = k]]]

reorderLayer(id, direction) ==
    LET rs == recordState(history, redoStack, layers)
        res == reorder(layers.arr, id, direction)
    IN
    /\ history' = rs.history
    /\ redoStack' = rs.redoStack
    /\ edits' = edits + 1
    /\ IF res = Null THEN UNCHANGED layers ELSE layers' = NewArray(res.arr)
    /\ last' = [op |-> "reorderLayer", ret |-> Null, rec |-> TRUE,
                h |-> Len(history), r |-> Len(redoStack),
                id |-> id, direction |-> direction]
    /\ UNCHANGED <<selectedLayerId, activeOperation, interactionStart, pending>>
    /\ UNCHANGED workflowVars

centerLayer_NaturalSize(id) ==
    LET rs == recordState(history, redoStack, layers)
        l == find(layers.arr, id)
    IN
    /\ history' = rs.history
    /\ redoStack' = rs.redoStack
    /\ edits' = edits + 1
    /\ IF l = Null THEN UNCHANGED layers
       ELSE layers' = NewArray([i \in 1..Len(layers.arr) |->
                IF layers.arr[i].id = id
                THEN [layers.arr[i] EXCEPT
                         !.x = Px(CANVAS_SIZE) \div 2 - Px(l.originalWidth) \div 2,
                         !.y = Px(CANVAS_SIZE) \div 2 - Px(l.originalHeight) \div 2]
                ELSE layers.arr[i]])
    /\ last' = [op |-> "centerLayer", ret |-> Null, rec |-> TRUE,
                h |-> Len(history), r |-> Len(redoStack), id |-> id]
    /\ UNCHANGED <<selectedLayerId, activeOperation, interactionStart, pending>>
    /\ UNCHANGED workflowVars

centerLayer(id) ==
    LET rs == recordState(history, redoStack, layers)
        l == find(layers.arr, id)
    IN
    /\ history' = rs.history
    /\ redoStack' = rs.redoStack
    /\ edits' = edits + 1
    /\ IF l = Null THEN UNCHANGED layers
       ELSE layers' = NewArray([i \in 1..Len(layers.arr) |->
                IF layers.arr[i].id = id
                THEN [layers.arr[i] EXCEPT
                         !.x = Px(CANVAS_SIZE) \div 2 - currentWidth(l) \div 2,
                         !.y = Px(CANVAS_SIZE) \div 2 - currentHeight(l) \div 2]
                ELSE layers.arr[i]])
    /\ last' = [op |-> "centerLayer", ret |-> Null, rec |-> TRUE,
                h |-> Len(history), r |-> Len(redoStack), id |-> id]
    /\ UNCHANGED <<selectedLayerId, activeOperation, interactionStart, pending>>
    /\ UNCHANGED workflowVars

(***************************************************************************)
(* App: errors                                                             *)
(***************************************************************************)
\* the ids of the errors shown or with a timer still to run
UsedErrorIds ==
    {timers[i] : i \in 1..Len(timers)}
        \cup (IF error = Null THEN {} ELSE {error.id})

\* Math.random().toString(36): an id no other error in sight has
NewErrorId == CHOOSE n \in 1..(Cardinality(UsedErrorIds) + 1) : n \notin UsedErrorIds

\* s without its i-th element
removeAt(s, i) == SubSeq(s, 1, i - 1) \o SubSeq(s, i + 1, Len(s))

generateError_KeepsStage(message, details) ==
    /\ error' = [id |-> NewErrorId, message |-> message, details |-> details]
    /\ UNCHANGED stage
    /\ timers' = Append(timers, NewErrorId)

\* generateError(message, details): its effect on error, stage and timers
generateError(message, details) ==
    /\ error' = [id |-> NewErrorId, message |-> message, details |-> details]
    /\ stage' = "idle"
    /\ timers' = Append(timers, NewErrorId)

\* the callback of a setTimeout of generateError: setError(null)
errorTimeout(i) ==
    /\ i \in 1..Len(timers)
    /\ error' = Null
    /\ timers' = removeAt(timers, i)
    /\ last' = [op |-> "errorTimeout", ret |-> Null, rec |-> FALSE,
                h |-> Len(history), r |-> Len(redoStack), id |-> timers[i]]
    /\ UNCHANGED <<layers, selectedLayerId, history, redoStack, activeOperation,
                   interactionStart, pending, edits, stage, activeTaskType,
                   isImproving, lastResult, loading, requests>>

\* the close button of the error toast: setError(null)
dismissError ==
    /\ error' = Null
    /\ last' = Ran("dismissError", Null, FALSE)
    /\ UNCHANGED <<layers, selectedLayerId, history, redoStack, activeOperation,
                   interactionStart, pending, edits, stage, activeTaskType,
                   isImproving, lastResult, timers, loading, requests>>

(***************************************************************************)
(* projectManager: loadProject, and App: handleLoadProject                 *)
(***************************************************************************)
\* A project file is [name, json]: json is what JSON.parse returns for its
\* text, a record of JSON values, or Null when JSON.parse throws.  A JSON
\* value is [type |-> "array", items |-> <<...>>], [type |-> "string",
\* value |-> ...] or [type |-> "null"]; a key that is absent reads as
\* [type |-> "undefined"].
get(json, key) ==
    IF key \in DOMAIN json THEN json[key] ELSE [type |-> "undefined"]

\* JavaScript truthiness of a JSON value
truthy(v) ==
    CASE v.type = "undefined" -> FALSE
      [] v.type = "null" -> FALSE
      [] v.type = "string" -> v.value # ""
      [] OTHER -> TRUE

isArray(v) == v.type = "array"

\* what the promise of loadProject(file) settles with when the file is read
loadProject(file) ==
    IF file.json = Null
    THEN [ok |-> FALSE, message |-> "Failed to parse project file"]
    ELSE IF truthy(get(file.json, "layers")) /\ isArray(get(file.json, "layers"))
         THEN [ok |-> TRUE, layers |-> file.json.layers.items]
         ELSE [ok |-> FALSE, message |-> "Invalid .vmix project file structure"]

\* files: e.target.files of the project input, <<>> when the dialog is
\* cancelled
handleLoadProject(files) ==
    LET rs == recordState(history, redoStack, layers) IN
    /\ IF files = <<>>
       THEN /\ UNCHANGED <<history, redoStack, loading, edits>>
            /\ last' = Ran("handleLoadProject", Null, FALSE)
       ELSE /\ history' = rs.history
            /\ redoStack' = rs.redoStack
            /\ loading' = Append(loading, files[1])
            /\ edits' = edits + 1
            /\ last' = Ran("handleLoadProject", Null, TRUE)
    /\ UNCHANGED <<layers, selectedLayerId, activeOperation, interactionStart,
                   pending, stage, activeTaskType, isImproving, error,
                   lastResult, timers, requests>>

\* the i-th project file in flight is read (reader.onload, or reader.onerror
\* when not readable) and the .then or .catch of handleLoadProject runs
loadSettled(i, readable) ==
    /\ i \in 1..Len(loading)
    /\ LET p == IF readable THEN loadProject(loading[i])
                ELSE [ok |-> FALSE, message |-> "Failed to read file"]
       IN
       /\ IF p.ok
          THEN /\ layers' = NewArray(p.layers)
               /\ selectedLayerId' =
                      IF Len(p.layers) > 0 THEN p.layers[Len(p.layers)].id
                      ELSE selectedLayerId
               /\ UNCHANGED <<error, stage, timers>>
          ELSE /\ generateError("Load Failed", p.message)
               /\ UNCHANGED <<layers, selectedLayerId>>
       /\ last' = [op |-> "loadSettled", ret |-> Null, rec |-> FALSE,
                   h |-> Len(history), r |-> Len(redoStack),
                   file |-> loading[i], readable |-> readable, ok |-> p.ok]
    /\ loading' = removeAt(loading, i)
    /\ UNCHANGED <<history, redoStack, activeOperation, interactionStart,
                   pending, edits, activeTaskType, isImproving, lastResult,
                   requests>>

(***************************************************************************)
(* App: the workflow                                                       *)
(***************************************************************************)
\* startWorkflow(taskType, ...) up to its await: the request for suggestions
\* is sent
startWorkflow(taskType) ==
    /\ activeTaskType' = taskType
    /\ stage' = "analyzing"
    /\ requests' = Append(requests, [call |-> "generateCreativeSuggestions"])
    /\ edits' = edits + 1
    /\ last' = Ran("startWorkflow", Null, FALSE)
    /\ UNCHANGED <<layers, selectedLayerId, history, redoStack, activeOperation,
                   interactionStart, pending, isImproving, error, lastResult,
                   timers, loading>>

\* activeTab: the tab the user is on
handleMainAction(activeTab) ==
    IF activeTab = "GENERATE" THEN startWorkflow("generate")
    ELSE startWorkflow("edit")

\* the rest of startWorkflow: the i-th request, one for suggestions, returns
\* (ok) or throws
suggestionsSettled(i, ok) ==
    /\ i \in 1..Len(requests)
    /\ requests[i].call = "generateCreativeSuggestions"
    /\ IF ok
       THEN stage' = "suggesting" /\ UNCHANGED <<error, timers>>
       ELSE generateError("Analysis Failed", "err.message")
    /\ requests' = removeAt(requests, i)
    /\ last' = [op |-> "suggestionsSettled", ret |-> Null, rec |-> FALSE,
                h |-> Len(history), r |-> Len(redoStack), ok |-> ok]
    /\ UNCHANGED <<layers, selectedLayerId, history, redoStack, activeOperation,
                   interactionStart, pending, edits, activeTaskType,
                   isImproving, lastResult, loading>>

\* the close button of the suggestion grid
closeSuggestions ==
    /\ stage' = "idle"
    /\ last' = Ran("closeSuggestions", Null, FALSE)
    /\ UNCHANGED <<layers, selectedLayerId, history, redoStack, activeOperation,
                   interactionStart, pending, edits, activeTaskType,
                   isImproving, error, lastResult, timers, loading, requests>>

\* executeTask(selectedSuggestion) up to its first await.  No state is
\* written between its awaits (the delay, renderCanvasToImage, the service
\* call), so they are one request in flight; `layers` is the array the
\* composite reads, the one of the render executeTask was created in
executeTask ==
    /\ stage' = "executing"
    /\ requests' = Append(requests, [call |-> "execute", task |-> activeTaskType,
                                     layers |-> layers,
                                     lastResult |-> lastResult])
    /\ last' = Ran("executeTask", Null, FALSE)
    /\ UNCHANGED <<layers, selectedLayerId, history, redoStack, activeOperation,
                   interactionStart, pending, edits, activeTaskType,
                   isImproving, error, lastResult, timers, loading>>

\* `No source image found`: a clean or 3d task with neither a result nor a
\* layer
noSource(req) ==
    /\ req.task \in {"clean", "3d"}
    /\ req.lastResult = NullId
    /\ Len(req.layers.arr) = 0

\* the image urls the browser cannot decode (img.onerror, never img.onload)
BrokenUrls == {"x.png"}

\* renderCanvasToImage() over the array arr: TRUE when it returns the image.
\* For each layer in turn it awaits `new Promise(r => img.onload = r)`, a
\* promise that nothing settles when the image fails to load: with a layer
\* whose url does not decode it neither returns nor throws
renderCanvasToImage(arr) ==
    \A i \in 1..Len(arr) : arr[i].url \notin BrokenUrls

\* executeTask composes the canvas for an edit, and for a clean or 3d task
\* when there is no last result
needsComposite(req) ==
    \/ req.task = "edit"
    \/ /\ req.task \in {"clean", "3d"}
       /\ req.lastResult = NullId
       /\ Len(req.layers.arr) > 0

\* the rest of executeTask: the i-th request, an execution, returns a url
\* (ok) or throws; it does neither while its composite does not return
executeSettled(i, ok) ==
    /\ i \in 1..Len(requests)
    /\ requests[i].call = "execute"
    /\ needsComposite(requests[i]) => renderCanvasToImage(requests[i].layers.arr)
    /\ IF ok /\ ~noSource(requests[i])
       THEN /\ lastResult' = "result.png"
            /\ stage' = "finished"
            /\ UNCHANGED <<error, timers>>
       ELSE /\ generateError("Execution Failed", "err.message")
            /\ UNCHANGED lastResult
    /\ requests' = removeAt(requests, i)
    /\ last' = [op |-> "executeSettled", ret |-> Null, rec |-> FALSE,
                h |-> Len(history), r |-> Len(redoStack),
                ok |-> ok /\ ~noSource(requests[i])]
    /\ UNCHANGED <<layers, selectedLayerId, history, redoStack, activeOperation,
                   interactionStart, pending, edits, activeTaskType,
                   isImproving, loading>>

\* handleImprovePrompt(target) with a non-blank text, up to its await
handleImprovePrompt ==
    /\ isImproving' = TRUE
    /\ requests' = Append(requests, [call |-> "improvePrompt"])
    /\ edits' = edits + 1
    /\ last' = Ran("handleImprovePrompt", Null, FALSE)
    /\ UNCHANGED <<layers, selectedLayerId, history, redoStack, activeOperation,
                   interactionStart, pending, stage, activeTaskType, error,
                   lastResult, timers, loading>>

\* the rest of handleImprovePrompt: the i-th request, an improvePrompt,
\* returns (ok) or throws
improveSettled(i, ok) ==
    /\ i \in 1..Len(requests)
    /\ requests[i].call = "improvePrompt"
    /\ IF ok
       THEN UNCHANGED <<error, stage, timers>>
       ELSE generateError("Failed to improve prompt", "err.message")
    /\ isImproving' = FALSE
    /\ requests' = removeAt(requests, i)
    /\ last' = [op |-> "improveSettled", ret |-> Null, rec |-> FALSE,
                h |-> Len(history), r |-> Len(redoStack), ok |-> ok]
    /\ UNCHANGED <<layers, selectedLayerId, history, redoStack, activeOperation,
                   interactionStart, pending, edits, activeTaskType,
                   lastResult, loading>>

(***************************************************************************)
(* Inputs                                                                  *)
(***************************************************************************)
\* the image files a user may pick: url and natural size in pixels
aPng == [url |-> "a.png", w |-> 200, h |-> 200]
bPng == [url |-> "b.png", w |-> 400, h |-> 200]
ImgFiles == {aPng, bPng}

\* (Math.random() - 0.5) * 40 on each axis, in tenths of a pixel
Jitters == {<<0, 0>>}

\* pointer displacements of a drag since pointer-down, in pixels
DragDeltas == {<<0, 0>>, <<-500, -500>>}

\* where the pointer is during a resize, relative to the layer's anchor, in
\* pixels: at distance 0, 25 and 50
ResizeOffsets == {<<0, 0>>, <<15, 20>>, <<30, 40>>}

\* values of the scale slider (min 0.1, max 2, step 0.05), in thousandths
SliderScales == {500}

\* values of the rotation slider (min -180, max 180, step 5)
SliderRotations == {45}

\* the pointer event at canvas position (x, y), both in tenths of a pixel
EventAt(x, y) == [clientX |-> x + canvasRect.left, clientY |-> y + canvasRect.top]

LayerSet == {layers.arr[i] : i \in 1..Len(layers.arr)}

\* the selected layer, as the controls panel reads it
selectedLayer == find(layers.arr, selectedLayerId)

\* the pointer-moves offered to the canvas in the current state
MoveEvents ==
    IF activeOperation = "drag"
    THEN {[clientX |-> interactionStart.startX + Px(d[1]),
           clientY |-> interactionStart.startY + Px(d[2])] : d \in DragDeltas}
    ELSE IF selectedLayer # Null
    THEN {EventAt(selectedLayer.x + Px(o[1]), selectedLayer.y + Px(o[2])) :
              o \in ResizeOffsets \ {<<30, 40>>, <<0, 0>>}}
    ELSE {EventAt(Px(300), Px(300))}

\* the urls of the images on the canvas, in the stacks or being loaded
Imported ==
    UNION {{a.arr[i].url : i \in 1..Len(a.arr)} : a \in ReferencedArrays}
        \cup {pending[i].url : i \in 1..Len(pending)}

\* the selections of the file picker: one file or several, each file picked
\* at most once in a run
FileLists ==
    LET fresh == {f \in ImgFiles : f.url \notin Imported} IN
    {<<f>> : f \in fresh} \cup {fs \in fresh \X fresh : fs[1] # fs[2]}

\* no session is active: with a single pointer, captured by the layer for the
\* length of a session, no control can be clicked during one
Idle == activeOperation = "none"

(***************************************************************************)
(* Spec: the editor with a small canvas                                    *)
(***************************************************************************)
Next ==
    \/ \E files \in FileLists :
           /\ Idle /\ edits < MaxEdits
           /\ handleFileChange(files)
    \/ \E i \in 1..Len(pending), j \in Jitters : imgOnload(i, j[1], j[2])
    \/ \E l \in LayerSet :
           /\ Idle /\ edits < MaxEdits
           /\ handleLayerPointerDown(EventAt(l.x + Px(10), l.y + Px(10)), l)
    \/ \E o \in ResizeOffsets :
           /\ Idle /\ edits < MaxEdits /\ selectedLayer # Null
           /\ o \in {<<0, 0>>, <<30, 40>>}
           /\ handleResizePointerDown(
                  EventAt(selectedLayer.x + Px(o[1]), selectedLayer.y + Px(o[2])),
                  selectedLayer)
    \/ \E e \in MoveEvents : ~Idle /\ handleCanvasPointerMove(e)
    \/ handleCanvasPointerUp("pointerUp")
    \/ handleCanvasPointerUp("pointerLeave")
    \/ \E l \in LayerSet : Idle /\ l.id # selectedLayerId /\ setSelectedLayerId(l.id)
    \/ \E s \in SliderScales :
           /\ Idle /\ edits < MaxEdits /\ selectedLayer # Null
           /\ selectedLayer.scale # s
           /\ updateLayer(selectedLayerId, [scale |-> s])
    \/ \E r \in SliderRotations :
           /\ Idle /\ edits < MaxEdits /\ selectedLayer # Null
           /\ selectedLayer.rotation # r
           /\ updateLayer(selectedLayerId, [rotation |-> r])
    \/ /\ Idle /\ edits < MaxEdits /\ selectedLayer # Null
       /\ removeLayer(selectedLayerId)
    \/ \E d \in {"up", "down"} :
           /\ Idle /\ edits < MaxEdits /\ selectedLayer # Null
           /\ reorderLayer(selectedLayerId, d)
    \/ /\ Idle /\ edits < MaxEdits /\ selectedLayer # Null
       /\ centerLayer(selectedLayerId)
    \/ Idle /\ handleUndo
    \/ Idle /\ handleRedo

Spec == Init /\ [][Next]_vars

(***************************************************************************)
(* SpecHistory: the same image is imported again and again, each import    *)
(* recording the layer set before it, so the k-th recorded snapshot holds  *)
(* k - 1 layers; once the user starts undoing, nothing more is recorded.   *)
(***************************************************************************)
NextHistory ==
    \/ /\ redoStack = <<>> /\ pending = <<>> /\ edits < LongRun
       /\ handleFileChange(<<aPng>>)
    \/ imgOnload(1, 0, 0)
    \/ pending = <<>> /\ handleUndo

SpecHistory == Init /\ [][NextHistory]_vars

(***************************************************************************)
(* SpecStacks: imports (one image at a time, each loaded before the next   *)
(* click), undo and redo in any order, long enough to exceed the capacity  *)
(* of the past stack.                                                      *)
(***************************************************************************)
NextStacks ==
    \/ /\ pending = <<>> /\ edits < LongRun
       /\ handleFileChange(<<aPng>>)
    \/ imgOnload(1, 0, 0)
    \/ pending = <<>> /\ handleUndo
    \/ pending = <<>> /\ handleRedo

SpecStacks == Init /\ [][NextStacks]_vars

(***************************************************************************)
(* SpecPointer: one small image and one very large one, imported one at a  *)
(* time, then dragged past each edge of the canvas, resized from and to    *)
(* several distances, scaled with the slider, centered, undone and redone. *)
(***************************************************************************)
\* SpecPointer: edits (recordState calls and slider changes) in one run
PointerEdits == 3

cPng == [url |-> "c.png", w |-> 100, h |-> 100]
hugePng == [url |-> "huge.png", w |-> 5000, h |-> 5000]

\* pointer displacements of a drag since pointer-down, in pixels: short, and
\* past the canvas edges on either side
PointerDragDeltas == {<<-150, -150>>, <<-500, -500>>, <<500, 500>>, <<20, -30>>}

\* where the pointer is during a resize, relative to the layer's anchor, in
\* pixels: at distance 0, 25 and 100
PointerResizeOffsets == {<<0, 0>>, <<15, 20>>, <<60, 80>>}

\* the ends of the scale slider (min 0.1, max 2), in thousandths
PointerSliderScales == {100, 2000}

PointerMoveEvents ==
    IF activeOperation = "drag"
    THEN {[clientX |-> interactionStart.startX + Px(d[1]),
           clientY |-> interactionStart.startY + Px(d[2])] : d \in PointerDragDeltas}
    ELSE IF selectedLayer # Null
    THEN {EventAt(selectedLayer.x + Px(o[1]), selectedLayer.y + Px(o[2])) :
              o \in PointerResizeOffsets}
    ELSE {}

NextPointer ==
    \/ \E f \in {cPng, hugePng} :
           /\ Idle /\ edits < PointerEdits
           /\ f.url \notin Imported
           /\ handleFileChange(<<f>>)
    \/ imgOnload(1, 0, 0)
    \/ \E l \in LayerSet :
           /\ Idle /\ edits < PointerEdits
           /\ handleLayerPointerDown(EventAt(l.x + Px(10), l.y + Px(10)), l)
    \/ \E o \in {<<0, 0>>, <<30, 40>>} :
           /\ Idle /\ edits < PointerEdits /\ selectedLayer # Null
           /\ handleResizePointerDown(
                  EventAt(selectedLayer.x + Px(o[1]), selectedLayer.y + Px(o[2])),
                  selectedLayer)
    \/ \E e \in PointerMoveEvents : ~Idle /\ handleCanvasPointerMove(e)
    \/ ~Idle /\ handleCanvasPointerUp("pointerUp")
    \/ \E s \in PointerSliderScales :
           /\ Idle /\ edits < PointerEdits /\ selectedLayer # Null
           /\ selectedLayer.scale # s
           /\ updateLayer(selectedLayerId, [scale |-> s])
    \/ /\ Idle /\ edits < PointerEdits /\ selectedLayer # Null
       /\ centerLayer(selectedLayerId)
    \/ Idle /\ pending = <<>> /\ handleUndo
    \/ Idle /\ pending = <<>> /\ handleRedo

SpecPointer == Init /\ [][NextPointer]_vars

(***************************************************************************)
(* SpecLayers: up to three copies of one image are imported with one pick  *)
(* of the file input, then layers are selected, reordered and removed, and *)
(* the edits undone and redone.                                            *)
(***************************************************************************)
\* SpecLayers: recordState calls (imports, reorders, removals) in one run
LayerEdits == 3

\* SpecLayers: the number of files in one pick of the file input
PickSizes == {1, 2, 3}

NextLayers ==
    \/ \E n \in PickSizes :
           /\ pending = <<>> /\ edits < LayerEdits
           /\ handleFileChange([i \in 1..n |-> aPng])
    \/ imgOnload(1, 0, 0)
    \/ \E l \in LayerSet : l.id # selectedLayerId /\ setSelectedLayerId(l.id)
    \/ /\ edits < LayerEdits /\ selectedLayer # Null
       /\ removeLayer(selectedLayerId)
    \/ \E d \in {"up", "down"} :
           /\ edits < LayerEdits /\ selectedLayer # Null
           /\ reorderLayer(selectedLayerId, d)
    \/ pending = <<>> /\ handleUndo
    \/ pending = <<>> /\ handleRedo

SpecLayers == Init /\ [][NextLayers]_vars

(***************************************************************************)
(* SpecOps: one or two images are imported (with the random jitter at its  *)
(* ends and in the middle), layers are selected, dragged, removed,         *)
(* centered and changed with the sliders, and the edits undone and redone. *)
(* The interface passes the selected layer's id to removeLayer; here it is *)
(* applied to the other layers too, to reach the branch that keeps the     *)
(* selection.                                                              *)
(***************************************************************************)
\* SpecOps: edits (recordState calls and slider changes) in one run
OpsEdits == 2

\* (Math.random() - 0.5) * 40 on each axis, in tenths of a pixel: the lowest
\* value, the middle and just under the highest
OpsJitters == {<<-200, -200>>, <<0, 0>>, <<199, 150>>}

NextOps ==
    \/ \E files \in FileLists :
           /\ Idle /\ edits < OpsEdits
           /\ handleFileChange(files)
    \/ \E i \in 1..Len(pending), j \in OpsJitters : imgOnload(i, j[1], j[2])
    \/ \E l \in LayerSet : Idle /\ l.id # selectedLayerId /\ setSelectedLayerId(l.id)
    \/ \E l \in LayerSet :
           /\ Idle /\ edits < OpsEdits
           /\ handleLayerPointerDown(EventAt(l.x + Px(10), l.y + Px(10)), l)
    \/ /\ activeOperation = "drag"
       /\ handleCanvasPointerMove([clientX |-> interactionStart.startX + Px(20),
                                   clientY |-> interactionStart.startY - Px(30)])
    \/ ~Idle /\ handleCanvasPointerUp("pointerUp")
    \/ \E l \in LayerSet :
           /\ Idle /\ edits < OpsEdits
           /\ removeLayer(l.id)
    \/ /\ Idle /\ edits < OpsEdits /\ selectedLayer # Null
       /\ centerLayer(selectedLayerId)
    \/ \E s \in SliderScales :
           /\ Idle /\ edits < OpsEdits /\ selectedLayer # Null
           /\ selectedLayer.scale # s
           /\ updateLayer(selectedLayerId, [scale |-> s])
    \/ \E r \in SliderRotations :
           /\ Idle /\ edits < OpsEdits /\ selectedLayer # Null
           /\ selectedLayer.rotation # r
           /\ updateLayer(selectedLayerId, [rotation |-> r])
    \/ Idle /\ pending = <<>> /\ handleUndo
    \/ Idle /\ pending = <<>> /\ handleRedo

SpecOps == Init /\ [][NextOps]_vars

(***************************************************************************)
(* SpecLoad: project files                                                 *)
(***************************************************************************)
\* One image import, project loads of every kind of file, undo and redo.
\* The stage stays idle, so every control is enabled.
LoadEdits == 2

\* a layer as saveProject wrote it
savedLayer ==
    [id |-> "p1", url |-> "p.png", x |-> Px(100), y |-> Px(100),
     scale |-> 1000, rotation |-> 0, zIndex |-> 1,
     aspectRatio |-> <<200, 200>>, originalWidth |-> 200,
     originalHeight |-> 200]

\* the fields of a CanvasLayer
LayerFields == DOMAIN savedLayer

\* an object that is not a layer: { "id": "x", "url": "x.png" }
notALayer == [id |-> "x", url |-> "x.png"]

array(items) == [type |-> "array", items |-> items]

goodVmix == [name |-> "good.vmix",
             json |-> [version |-> [type |-> "string", value |-> "1.0"],
                       layers |-> array(<<savedLayer>>)]]
emptyVmix == [name |-> "empty.vmix",
              json |-> [version |-> [type |-> "string", value |-> "1.0"],
                        layers |-> array(<<>>)]]
mixedVmix == [name |-> "mixed.vmix",
              json |-> [version |-> [type |-> "string", value |-> "1.0"],
                        layers |-> array(<<savedLayer, notALayer>>)]]
noKeyVmix == [name |-> "nokey.vmix",
              json |-> [version |-> [type |-> "string", value |-> "1.0"]]]
stringVmix == [name |-> "string.vmix",
               json |-> [layers |-> [type |-> "string", value |-> "none"]]]
nullVmix == [name |-> "null.vmix", json |-> [layers |-> [type |-> "null"]]]
brokenVmix == [name |-> "broken.vmix", json |-> Null]

ProjectFiles ==
    {goodVmix, emptyVmix, mixedVmix, noKeyVmix, stringVmix, nullVmix, brokenVmix}

NextLoad ==
    \/ /\ Idle /\ edits < LoadEdits /\ aPng.url \notin Imported
       /\ handleFileChange(<<aPng>>)
    \/ \E i \in 1..Len(pending) : imgOnload(i, 0, 0)
    \/ \E f \in ProjectFiles : edits < LoadEdits /\ handleLoadProject(<<f>>)
    \/ handleLoadProject(<<>>)
    \/ \E i \in 1..Len(loading), readable \in BOOLEAN : loadSettled(i, readable)
    \/ \E i \in 1..Len(timers) : errorTimeout(i)
    \/ pending = <<>> /\ handleUndo
    \/ pending = <<>> /\ handleRedo

SpecLoad == Init /\ [][NextLoad]_vars

(***************************************************************************)
(* SpecWorkflow: the workflow beside imports and project loads             *)
(***************************************************************************)
\* One image import, project loads, prompt improvement and the workflow
\* from the main action to its result, with every call of the generation
\* service returning or throwing at any later time.
WorkflowEdits == 3

\* <main> takes pointer events only in these stages, and the overlays of the
\* other stages cover it
MainEnabled == stage \in {"idle", "finished"}

\* the calls of the workflow in flight: for suggestions and for the execution
WorkflowRequests ==
    {i \in 1..Len(requests) :
         requests[i].call \in {"generateCreativeSuggestions", "execute"}}

NextWorkflow ==
    \/ /\ MainEnabled /\ edits < WorkflowEdits /\ aPng.url \notin Imported
       /\ handleFileChange(<<aPng>>)
    \/ \E i \in 1..Len(pending) : imgOnload(i, 0, 0)
    \/ \E f \in {goodVmix, brokenVmix} :
           MainEnabled /\ edits < WorkflowEdits /\ handleLoadProject(<<f>>)
    \/ \E i \in 1..Len(loading) : loadSettled(i, TRUE)
    \/ \E activeTab \in {"GENERATE", "EDIT"} :
           /\ MainEnabled /\ edits < WorkflowEdits
           /\ ~(activeTab = "EDIT" /\ Len(layers.arr) = 0)
           /\ handleMainAction(activeTab)
    \/ \E i \in 1..Len(requests), ok \in BOOLEAN : suggestionsSettled(i, ok)
    \/ stage = "suggesting" /\ closeSuggestions
    \/ stage = "suggesting" /\ executeTask
    \/ \E i \in 1..Len(requests), ok \in BOOLEAN : executeSettled(i, ok)
    \/ /\ MainEnabled /\ ~isImproving /\ edits < WorkflowEdits
       /\ handleImprovePrompt
    \/ \E i \in 1..Len(requests), ok \in BOOLEAN : improveSettled(i, ok)
    \/ \E i \in 1..Len(timers) : errorTimeout(i)
    \/ error # Null /\ dismissError

SpecWorkflow == Init /\ [][NextWorkflow]_vars

(***************************************************************************)
(* SpecComposite: the workflow over a loaded project, with fairness        *)
(***************************************************************************)
\* An image import, project loads and the workflow up to its result.  Every
\* file read, every
\* call of the generation service and every timer ends: the settling steps
\* are weakly fair.
CompositeEdits == 2

NextComposite ==
    \/ /\ MainEnabled /\ edits < CompositeEdits /\ aPng.url \notin Imported
       /\ handleFileChange(<<aPng>>)
    \/ \E i \in 1..Len(pending) : imgOnload(i, 0, 0)
    \/ \E f \in {goodVmix, mixedVmix} :
           MainEnabled /\ edits < CompositeEdits /\ handleLoadProject(<<f>>)
    \/ \E i \in 1..Len(loading) : loadSettled(i, TRUE)
    \/ \E activeTab \in {"GENERATE", "EDIT"} :
           /\ MainEnabled /\ edits < CompositeEdits
           /\ ~(activeTab = "EDIT" /\ Len(layers.arr) = 0)
           /\ handleMainAction(activeTab)
    \/ \E i \in 1..Len(requests), ok \in BOOLEAN : suggestionsSettled(i, ok)
    \/ stage = "suggesting" /\ closeSuggestions
    \/ stage = "suggesting" /\ executeTask
    \/ \E i \in 1..Len(requests), ok \in BOOLEAN : executeSettled(i, ok)
    \/ \E i \in 1..Len(timers) : errorTimeout(i)

SpecComposite ==
    /\ Init /\ [][NextComposite]_vars
    /\ WF_vars(\E i \in 1..Len(pending) : imgOnload(i, 0, 0))
    /\ WF_vars(\E i \in 1..Len(loading) : loadSettled(i, TRUE))
    /\ WF_vars(\E i \in 1..Len(requests), ok \in BOOLEAN : suggestionsSettled(i, ok))
    /\ WF_vars(\E i \in 1..Len(requests), ok \in BOOLEAN : executeSettled(i, ok))
    /\ WF_vars(\E i \in 1..Len(timers) : errorTimeout(i))

(***************************************************************************)
(* SpecMove: pointer-moves in every state                                  *)
(***************************************************************************)
\* One or two images are imported, a layer is dragged or resized or removed,
\* and the pointer moves over the canvas during a session as well as
\* without one, with and without a selection.
MoveEdits == 2

NextMove ==
    \/ \E files \in FileLists :
           /\ Idle /\ edits < MoveEdits
           /\ handleFileChange(files)
    \/ \E i \in 1..Len(pending) : imgOnload(i, 0, 0)
    \/ \E l \in LayerSet :
           /\ Idle /\ edits < MoveEdits
           /\ handleLayerPointerDown(EventAt(l.x + Px(10), l.y + Px(10)), l)
    \/ /\ Idle /\ edits < MoveEdits /\ selectedLayer # Null
       /\ handleResizePointerDown(
              EventAt(selectedLayer.x + Px(30), selectedLayer.y + Px(40)),
              selectedLayer)
    \/ \E e \in MoveEvents : handleCanvasPointerMove(e)
    \/ ~Idle /\ handleCanvasPointerUp("pointerUp")
    \/ /\ Idle /\ edits < MoveEdits /\ selectedLayer # Null
       /\ removeLayer(selectedLayerId)

SpecMove == Init /\ [][NextMove]_vars

(***************************************************************************)
(* Properties of the history hook                                          *)
(***************************************************************************)
\* a step of the handler named op (the observer names the handler of a step)
Step(op) == last'.op = op
PointerDownStep == Step("layerPointerDown") \/ Step("resizePointerDown")
PointerUpStep == Step("pointerUp") \/ Step("pointerLeave")

\* C1 (SpecHistory; recordState has been called `edits` times and the k-th
\* call recorded the first k - 1 layers): the past stack never holds more
\* than 15 entries, and as long as nothing has been undone it holds the
\* min(edits, 15) most recently recorded snapshots, oldest first, so beyond
\* 15 calls the oldest ones are the ones evicted.
C1_PastStackKeepsNewest ==
    /\ Len(history) <= HISTORY_LIMIT
    /\ redoStack = <<>> =>
           /\ Len(history) = Min(edits, HISTORY_LIMIT)
           /\ \A i \in 1..Len(history) :
                  history[i].arr =
                      SubSeq(layers.arr, 1, edits - Len(history) + i - 1)

C1_Witness ==
    /\ last.rec /\ last.h = HISTORY_LIMIT /\ edits > HISTORY_LIMIT
    /\ redoStack = <<>> /\ Len(history) = HISTORY_LIMIT
    /\ Len(history[1].arr) = edits - HISTORY_LIMIT

\* C2 (SpecStacks): a successful undo followed at once by redo gives back
\* the live layer set and both stacks of the state the undo started from,
\* and a successful redo followed at once by undo does the same.
C2_RoundTrip ==
    [][/\ Step("undo") /\ history # <<>> =>
              LET n == redo(history', redoStack', layers') IN
              n.ret = layers /\ n.history = history /\ n.redoStack = redoStack
       /\ Step("redo") /\ redoStack # <<>> =>
              LET u == undo(history', redoStack', layers') IN
              u.ret = layers /\ u.history = history /\ u.redoStack = redoStack
      ]_vars

C2_Witness ==
    /\ last.op = "redo" /\ last.ret # Null /\ last.ret = layers
    /\ last.h >= 1 /\ last.r >= 2 /\ history # <<>> /\ redoStack # <<>>

\* C3 (Spec): after every handler that called recordState (an import, the
\* end of a session, remove, reorder, center) the redo stack is empty,
\* whatever it held before.
C3_RecordEmptiesRedo == last.rec => redoStack = <<>>

C3_Witness == last.rec /\ last.r > 0 /\ redoStack = <<>>

\* C4 (SpecStacks): undo with a non-empty past stack removes the most recent
\* past entry and returns it, pushes the current layer set on top of the
\* future stack, and leaves the older past entries and the earlier future
\* entries as they were.
C4_UndoContract ==
    [][Step("undo") /\ history # <<>> =>
           /\ last'.ret = history[Len(history)]
           /\ Len(history') = Len(history) - 1
           /\ \A i \in 1..Len(history') : history'[i] = history[i]
           /\ Len(redoStack') = Len(redoStack) + 1
           /\ redoStack'[Len(redoStack')] = layers
           /\ \A i \in 1..Len(redoStack) : redoStack'[i] = redoStack[i]
      ]_vars

C4_Witness ==
    /\ last.op = "undo" /\ last.ret # Null /\ last.h >= 3 /\ last.r >= 2
    /\ Len(history) = last.h - 1 /\ Len(redoStack) = last.r + 1

\* C5 (SpecStacks): redo with a non-empty future stack removes the most
\* recent future entry and returns it, pushes the current layer set on top
\* of the past stack, and leaves the other entries of both stacks as they
\* were.
C5_RedoContract ==
    [][Step("redo") /\ redoStack # <<>> =>
           /\ last'.ret = redoStack[Len(redoStack)]
           /\ Len(redoStack') = Len(redoStack) - 1
           /\ \A i \in 1..Len(redoStack') : redoStack'[i] = redoStack[i]
           /\ Len(history') = Len(history) + 1
           /\ history'[Len(history')] = layers
           /\ \A i \in 1..Len(history) : history'[i] = history[i]
      ]_vars

C5_Witness ==
    /\ last.op = "redo" /\ last.ret # Null /\ last.h >= 2 /\ last.r >= 3
    /\ Len(history) = last.h + 1 /\ Len(redoStack) = last.r - 1

\* C6 (SpecStacks): undo with an empty past stack and redo with an empty
\* future stack return null and leave both stacks, the live layer set and
\* the selection as they were.
C6_EmptyStackNoOp ==
    [][(\/ Step("undo") /\ history = <<>>
        \/ Step("redo") /\ redoStack = <<>>) =>
           /\ last'.ret = Null
           /\ UNCHANGED <<history, redoStack, layers, selectedLayerId>>
      ]_vars

C6_Witness ==
    /\ last.op = "redo" /\ last.ret = Null /\ last.r = 0 /\ last.h > 0
    /\ layers.arr # <<>> /\ selectedLayerId # NullId

\* C7 (SpecHistory; `edits` snapshots were recorded, the k-th holding the
\* first k - 1 layers, then only undo runs): the j-th undo returns the
\* snapshot recorded j - 1 places before the last one, for at most 15 of
\* them, and the undo after the last retained snapshot returns null.
C7_UndoReturnsReverseOrder ==
    last.op = "undo" =>
        IF last.ret = Null
        THEN history = <<>> /\ Len(redoStack) = Min(edits, HISTORY_LIMIT)
        ELSE /\ Len(redoStack) <= HISTORY_LIMIT
             /\ Len(redoStack[1].arr) = edits
             /\ last.ret.arr =
                    SubSeq(redoStack[1].arr, 1, edits - Len(redoStack))
             /\ layers = last.ret

C7_Witness ==
    /\ last.op = "undo" /\ last.ret = Null /\ edits > HISTORY_LIMIT
    /\ Len(redoStack) = HISTORY_LIMIT /\ history = <<>>
    /\ Len(layers.arr) = edits - HISTORY_LIMIT

\* C8 (SpecStacks): in every reachable state the past stack holds at most 15
\* entries and the redo stack holds at most 15 entries, although redo pushes
\* onto the past stack without a capacity check.
C8_BothStacksBounded ==
    Len(history) <= HISTORY_LIMIT /\ Len(redoStack) <= HISTORY_LIMIT

C8_Witness ==
    /\ last.op = "redo" /\ last.ret # Null
    /\ last.h = HISTORY_LIMIT - 1 /\ Len(history) = HISTORY_LIMIT
    /\ edits > HISTORY_LIMIT

(***************************************************************************)
(* Properties of the pointer sessions                                      *)
(***************************************************************************)
\* C9 (Spec): pointer-down keeps the live layer set as the session's
\* snapshot and records nothing; nothing is recorded and the snapshot is
\* kept while the session lasts; and the pointer-up or pointer-leave that
\* ends a session whose layer set differs from the snapshot adds exactly
\* that snapshot to the past stack, so that an undo returns it.
C9_GestureIsOneUndoStep ==
    [][/\ PointerDownStep =>
              /\ interactionStart'.initialLayers = layers
              /\ UNCHANGED <<history, redoStack>>
       /\ activeOperation # "none" /\ activeOperation' # "none" =>
              UNCHANGED <<history, redoStack, interactionStart>>
       /\ (/\ PointerUpStep /\ activeOperation # "none"
           /\ layers.arr # interactionStart.initialLayers.arr) =>
              /\ Len(history') = Min(Len(history) + 1, HISTORY_LIMIT)
              /\ history'[Len(history')] = interactionStart.initialLayers
              /\ Len(history) < HISTORY_LIMIT =>
                     history' = Append(history, interactionStart.initialLayers)
              /\ undo(history', redoStack', layers').ret =
                     interactionStart.initialLayers
              /\ undo(history', redoStack', layers').history = history
      ]_vars

C9_Witness ==
    /\ last.op = "pointerUp" /\ last.rec /\ activeOperation = "none"
    /\ Len(history) = last.h + 1
    /\ history[Len(history)] = interactionStart.initialLayers
    /\ history[Len(history)].arr # layers.arr

\* C10 (Spec): the pointer-up or pointer-leave that ends a session in which
\* no layer differs from the session's snapshot leaves the past stack and
\* the redo stack as they were.
C10_UnchangedSessionRecordsNothing ==
    [][(/\ PointerUpStep /\ activeOperation # "none"
        /\ layers.arr = interactionStart.initialLayers.arr) =>
           UNCHANGED <<history, redoStack>>
      ]_vars

(***************************************************************************)
(* Properties of drag and resize                                           *)
(***************************************************************************)
\* C11 (SpecPointer): after every pointer-move of a drag the dragged layer
\* has M - w <= x <= CANVAS_SIZE - M and M - h <= y <= CANVAS_SIZE - M, with
\* w and h its footprint at its current scale.
C11_DragStaysInBounds ==
    (last.op = "pointerMove" /\ activeOperation = "drag" /\ selectedLayer # Null) =>
        /\ Px(MIN_VISIBLE_PX) - currentWidth(selectedLayer) <= selectedLayer.x
        /\ selectedLayer.x <= Px(CANVAS_SIZE) - Px(MIN_VISIBLE_PX)
        /\ Px(MIN_VISIBLE_PX) - currentHeight(selectedLayer) <= selectedLayer.y
        /\ selectedLayer.y <= Px(CANVAS_SIZE) - Px(MIN_VISIBLE_PX)

C11_Witness ==
    /\ last.op = "pointerMove" /\ activeOperation = "drag" /\ selectedLayer # Null
    /\ selectedLayer.scale = 2000 /\ selectedLayer.originalWidth = 100
    /\ selectedLayer.x = Px(MIN_VISIBLE_PX) - Px(200)
    /\ selectedLayer.y = Px(MIN_VISIBLE_PX) - Px(200)
    /\ interactionStart.initialX > selectedLayer.x + Px(200)

\* v clamped to the range lo..hi of one axis
Clamped(v, lo, hi) == IF v < lo THEN lo ELSE IF v > hi THEN hi ELSE v

\* C12 (SpecPointer): after a pointer-move of a drag the dragged layer is at
\* its position at pointer-down plus the displacement of the pointer since
\* pointer-down, clamped on each axis to M - footprint .. CANVAS_SIZE - M.
C12_DragFollowsPointerFromStart ==
    (last.op = "pointerMove" /\ activeOperation = "drag" /\ selectedLayer # Null) =>
        /\ selectedLayer.x =
               Clamped(interactionStart.initialX
                           + (last.e.clientX - interactionStart.startX),
                       Px(MIN_VISIBLE_PX) - currentWidth(selectedLayer),
                       Px(CANVAS_SIZE - MIN_VISIBLE_PX))
        /\ selectedLayer.y =
               Clamped(interactionStart.initialY
                           + (last.e.clientY - interactionStart.startY),
                       Px(MIN_VISIBLE_PX) - currentHeight(selectedLayer),
                       Px(CANVAS_SIZE - MIN_VISIBLE_PX))

\* the example: a layer at (100,100) of footprint 100x100 dragged by
\* (-500,-500) is at (-60,-60)
C12_Witness ==
    /\ last.op = "pointerMove" /\ activeOperation = "drag" /\ selectedLayer # Null
    /\ interactionStart.initialX = Px(100) /\ interactionStart.initialY = Px(100)
    /\ currentWidth(selectedLayer) = Px(100) /\ currentHeight(selectedLayer) = Px(100)
    /\ last.e.clientX - interactionStart.startX = Px(-500)
    /\ last.e.clientY - interactionStart.startY = Px(-500)
    /\ selectedLayer.x = Px(-60) /\ selectedLayer.y = Px(-60)

\* C13 (SpecPointer): in every reachable state every layer keeps at least
\* M = 40 units of its footprint inside the canvas on each axis:
\* x + w >= M, x <= CANVAS_SIZE - M, y + h >= M, y <= CANVAS_SIZE - M.
C13_LayersStayVisible ==
    \A l \in LayerSet :
        /\ l.x + currentWidth(l) >= Px(MIN_VISIBLE_PX)
        /\ l.x <= Px(CANVAS_SIZE - MIN_VISIBLE_PX)
        /\ l.y + currentHeight(l) >= Px(MIN_VISIBLE_PX)
        /\ l.y <= Px(CANVAS_SIZE - MIN_VISIBLE_PX)

\* the distance of pointer event e from the top-left anchor (x, y) of a layer
AnchorDistance(e, x, y) ==
    Sqrt((e.clientX - canvasRect.left - x) * (e.clientX - canvasRect.left - x)
             + (e.clientY - canvasRect.top - y) * (e.clientY - canvasRect.top - y))

\* C14 (SpecPointer): in a resize session the start distance is the distance
\* of the pointer-down from the layer's top-left anchor, and when it is
\* positive the selected layer's scale after each pointer-move is
\* max(0.1, startScale * currentDistance / startDistance), currentDistance
\* being the distance of the pointer from that layer's top-left anchor.
C14_ResizeScale ==
    activeOperation = "resize" =>
        /\ interactionStart.initialDistance =
               AnchorDistance([clientX |-> interactionStart.startX,
                               clientY |-> interactionStart.startY],
                              interactionStart.initialX, interactionStart.initialY)
        /\ (/\ last.op = "pointerMove" /\ selectedLayer # Null
            /\ interactionStart.initialDistance > 0) =>
               LET d == AnchorDistance(last.e, selectedLayer.x, selectedLayer.y)
                   s == (interactionStart.initialScale * d)
                            \div interactionStart.initialDistance
               IN selectedLayer.scale = IF s < 100 THEN 100 ELSE s

\* the example: start distance 50, start scale 1, pointer at distance 25,
\* scale 0.5
C14_Witness ==
    /\ activeOperation = "resize" /\ last.op = "pointerMove" /\ selectedLayer # Null
    /\ interactionStart.initialDistance = Px(50)
    /\ interactionStart.initialScale = 1000
    /\ AnchorDistance(last.e, selectedLayer.x, selectedLayer.y) = Px(25)
    /\ selectedLayer.scale = 500

\* C15 (SpecPointer): in a resize session whose start distance is zero no
\* pointer-move changes the layer set (so no layer's scale changes), and
\* the pointer-up that ends it returns to idle and records nothing when the
\* layer set is still the one of pointer-down.
C15_ZeroStartDistance ==
    [][(activeOperation = "resize" /\ interactionStart.initialDistance = 0) =>
           /\ Step("pointerMove") =>
                  /\ UNCHANGED layers
                  /\ \A i \in 1..Len(layers.arr) :
                         layers'.arr[i].scale = layers.arr[i].scale
           /\ PointerUpStep =>
                  /\ activeOperation' = "none"
                  /\ layers = interactionStart.initialLayers =>
                         UNCHANGED <<history, redoStack, layers>>
      ]_vars

C15_Witness ==
    /\ activeOperation = "resize" /\ interactionStart.initialDistance = 0
    /\ last.op = "pointerMove" /\ selectedLayer # Null
    /\ AnchorDistance(last.e, selectedLayer.x, selectedLayer.y) = Px(100)
    /\ selectedLayer.scale = interactionStart.initialScale
    /\ layers = interactionStart.initialLayers

\* C16 (SpecPointer): in every reachable state every layer's scale is at
\* least the minimum 0.1.
C16_ScaleAtLeastMinimum == \A l \in LayerSet : l.scale >= 100

\* C17 (Spec): pointer-up and pointer-leave do the same thing: from idle,
\* dragging or resizing, the state afterwards is idle; a snapshot (the array
\* kept at pointer-down) is recorded exactly when a session was active and
\* the live array is no longer that array; so from idle, as after a
\* pointer-leave, nothing is recorded.
C17_LeaveClosesLikeUp ==
    [][PointerUpStep =>
           /\ activeOperation' = "none"
           /\ UNCHANGED <<layers, selectedLayerId, interactionStart>>
           /\ IF activeOperation # "none" /\ interactionStart.initialLayers # layers
              THEN /\ Len(history') = Min(Len(history) + 1, HISTORY_LIMIT)
                   /\ history'[Len(history')] = interactionStart.initialLayers
                   /\ redoStack' = <<>>
              ELSE UNCHANGED <<history, redoStack>>
      ]_vars

C17_Witness ==
    /\ last.op = "pointerLeave" /\ last.rec /\ activeOperation = "none"
    /\ Len(history) = last.h + 1
    /\ history[Len(history)] = interactionStart.initialLayers
    /\ layers # interactionStart.initialLayers

(***************************************************************************)
(* Properties of the stacking order                                        *)
(***************************************************************************)
\* the z-indices of an array are 1..N in array order
DenseZ(arr) == \A i \in 1..Len(arr) : arr[i].zIndex = i

\* C18 (SpecLayers): after every reorder of an existing layer the layer at
\* array position i (counted from 1) has zIndex i, whatever the z-indices
\* were before.
C18_ReorderRenumbers ==
    last.op = "reorderLayer" => DenseZ(layers.arr)

\* a reorder of a layer set whose z-indices were not 1..N (the set recorded
\* by the reorder is on top of the past stack)
C18_Witness ==
    /\ last.op = "reorderLayer" /\ Len(layers.arr) = 2 /\ DenseZ(layers.arr)
    /\ history # <<>> /\ ~DenseZ(history[Len(history)].arr)
    /\ layers.arr[1].id # history[Len(history)].arr[1].id

\* C19 (SpecLayers): in every reachable state the z-indices of the live
\* layer set are a dense permutation of 1..N in ascending array order, that
\* is, the layer at array position i has zIndex i.
C19_ZIndexDenseAlways == DenseZ(layers.arr)

\* C20 (SpecLayers): reorder(id, 'up') exchanges the layer with its
\* neighbour at the next higher array index, reorder(id, 'down') with the
\* one at the next lower index; every other layer keeps its position; 'up'
\* on the last layer and 'down' on the first keep the order; no layer
\* changes in anything but its zIndex.
C20_ReorderSwapsNeighbours ==
    [][Step("reorderLayer") =>
           LET arr == layers.arr
               N == Len(arr)
               idx == findIndex(arr, last'.id)
               other == IF last'.direction = "up" /\ idx < N THEN idx + 1
                        ELSE IF last'.direction = "down" /\ idx > 1 THEN idx - 1
                        ELSE idx
               from(k) == IF k = idx THEN other ELSE IF k = other THEN idx ELSE k
           IN idx > 0 =>
                  /\ Len(layers'.arr) = N
                  /\ \A k \in 1..N :
                         [layers'.arr[k] EXCEPT !.zIndex = 0] =
                             [arr[from(k)] EXCEPT !.zIndex = 0]
      ]_vars

\* 'up' on the first of three layers: it is second afterwards, the third
\* layer stays third
C20_Witness ==
    /\ last.op = "reorderLayer" /\ last.direction = "up" /\ Len(layers.arr) = 3
    /\ history # <<>> /\ Len(history[Len(history)].arr) = 3
    /\ history[Len(history)].arr[1].id = last.id
    /\ layers.arr[2].id = last.id
    /\ layers.arr[1].id = history[Len(history)].arr[2].id
    /\ layers.arr[3].id = history[Len(history)].arr[3].id

(***************************************************************************)
(* Properties of the layer operations                                      *)
(***************************************************************************)
\* the step recorded `snap` on the past stack (and emptied the redo stack)
Recorded(snap) ==
    /\ Len(history') = Min(Len(history) + 1, HISTORY_LIMIT)
    /\ history'[Len(history')] = snap
    /\ redoStack' = <<>>

\* C21 (SpecOps): removeLayer(id) records the layer set as it was before the
\* removal, removes the layer with that id and only it, keeping the others
\* in order, sets the selection to null if that layer was the selected one
\* and keeps the selection otherwise.
C21_RemoveLayer ==
    [][Step("removeLayer") =>
           /\ Recorded(layers)
           /\ layers'.arr = SelectSeq(layers.arr, LAMBDA l : l.id # last'.id)
           /\ Len(layers'.arr) = Len(layers.arr) - 1
           /\ selectedLayerId' =
                  IF selectedLayerId = last'.id THEN NullId ELSE selectedLayerId
      ]_vars

\* the first of two layers was removed while the second was selected
C21_Witness ==
    /\ last.op = "removeLayer" /\ history # <<>>
    /\ Len(history[Len(history)].arr) = 2 /\ Len(layers.arr) = 1
    /\ history[Len(history)].arr[1].id = last.id
    /\ layers.arr[1] = history[Len(history)].arr[2]
    /\ selectedLayerId = layers.arr[1].id

\* C22 (SpecOps): centerLayer(id) on an existing layer records the layer set
\* as it was before centering and sets the layer's x to 300 - w/2 and its y
\* to 300 - h/2, w and h being its current footprint (natural size times
\* scale); its other fields (scale, rotation, zIndex) and every other layer
\* are unchanged.
C22_CenterLayer ==
    [][(Step("centerLayer") /\ find(layers.arr, last'.id) # Null) =>
           /\ Recorded(layers)
           /\ Len(layers'.arr) = Len(layers.arr)
           /\ \A i \in 1..Len(layers.arr) :
                  LET l == layers.arr[i] IN
                  layers'.arr[i] =
                      IF l.id = last'.id
                      THEN [l EXCEPT
                              !.x = Px(300) - (l.originalWidth * l.scale) \div 200,
                              !.y = Px(300) - (l.originalHeight * l.scale) \div 200]
                      ELSE l
      ]_vars

\* the 400x200 image, imported at scale 0.625 off centre beside another
\* layer, was centred to (175, 237.5)
C22_Witness ==
    /\ last.op = "centerLayer" /\ history # <<>>
    /\ Len(layers.arr) = 2
    /\ \E i \in 1..2 :
          LET l == layers.arr[i]
              before == history[Len(history)].arr[i] IN
          /\ l.id = last.id /\ l.scale = 625
          /\ l.x = 1750 /\ l.y = 2375
          /\ before.x # l.x /\ before.y # l.y

\* C23 (SpecOps): updateLayer(id, fields) merges the given fields into the
\* layer with that id and changes nothing else: the other layers, the array
\* order, the selection, the past stack and the redo stack stay as they were
\* (no snapshot is taken).
C23_UpdateLayerMergesOnly ==
    [][Step("updateLayer") =>
           /\ UNCHANGED <<selectedLayerId, history, redoStack>>
           /\ Len(layers'.arr) = Len(layers.arr)
           /\ \A i \in 1..Len(layers.arr) :
                  LET l == layers.arr[i]
                      m == layers'.arr[i] IN
                  /\ DOMAIN m = DOMAIN l
                  /\ \A k \in DOMAIN l :
                         m[k] = IF l.id = last'.id /\ k \in DOMAIN last'.updates
                                THEN last'.updates[k] ELSE l[k]
      ]_vars

\* the scale slider changed the selected one of two layers, with a snapshot
\* on the past stack and none added
C23_Witness ==
    /\ last.op = "updateLayer" /\ "scale" \in DOMAIN last.updates
    /\ Len(layers.arr) = 2 /\ Len(history) = 1 /\ last.h = 1
    /\ \E i \in 1..2 : layers.arr[i].id = last.id /\ layers.arr[i].scale = 500
    /\ \E i \in 1..2 : layers.arr[i].id # last.id /\ layers.arr[i].scale # 500

\* the content of the layer set that one handleUndo leaves, taken right
\* after the step
AfterOneUndo ==
    LET u == undo(history', redoStack', layers') IN
    IF u.ret # Null THEN u.ret.arr ELSE layers'.arr

\* C24 (SpecOps): a scale change and a rotation change are undoable like the
\* other canvas operations: after a slider change, one undo restores the
\* layer set exactly as it was immediately before that change.
C24_SliderChangeUndoable ==
    [][Step("updateLayer") => AfterOneUndo = layers.arr]_vars

(***************************************************************************)
(* Properties of the asset import                                          *)
(***************************************************************************)
\* |a - b| <= d
Within(a, b, d) == a - b <= d /\ b - a <= d

\* C25 (SpecOps): adding an image of natural size W x H appends one layer
\* with scale = min(1, 250 / max(W, H)), rotation 0, zIndex = the number of
\* layers before the append plus 1 and a position within 20 units per axis
\* of (300 - W*scale/2, 300 - H*scale/2), and selects the new layer; a
\* 200x200 image gets scale 1 and a position within 20 units of (200, 200).
C25_ImportedLayer ==
    [][Step("imgOnload") =>
           LET n == Len(layers.arr)
               l == layers'.arr[n + 1]
               W == l.originalWidth
               H == l.originalHeight
               big == Max(W, H)
           IN
           /\ Len(layers'.arr) = n + 1
           /\ SubSeq(layers'.arr, 1, n) = layers.arr
           /\ IF big <= 250 THEN l.scale = 1000
              ELSE l.scale * big <= 250 * 1000 /\ 250 * 1000 < (l.scale + 1) * big
           /\ l.rotation = 0
           /\ l.zIndex = n + 1
           /\ Within(l.x, Px(300) - (W * l.scale) \div 200, Px(20))
           /\ Within(l.y, Px(300) - (H * l.scale) \div 200, Px(20))
           /\ selectedLayerId' = l.id
           /\ (W = 200 /\ H = 200) =>
                  /\ l.scale = 1000
                  /\ Within(l.x, Px(200), Px(20))
                  /\ Within(l.y, Px(200), Px(20))
      ]_vars

\* the 400x200 image was appended as the second layer at scale 0.625, off
\* centre, and is selected
C25_Witness ==
    /\ last.op = "imgOnload" /\ Len(layers.arr) = 2
    /\ LET l == layers.arr[2] IN
       /\ l.originalWidth = 400 /\ l.originalHeight = 200
       /\ l.scale = 625 /\ l.zIndex = 2 /\ l.rotation = 0
       /\ l.x = Px(300) - 1250 + 199 /\ l.y = Px(300) - 625 + 150
       /\ selectedLayerId = l.id
    /\ layers.arr[1].scale = 1000

\* C26 (SpecOps): each layer append of an import is preceded by a snapshot
\* of the pre-add state: at the moment a layer is appended, the top of the
\* past stack equals the layer set immediately before the append, whatever
\* happened between the file selection and the image load.
C26_AppendHasPreAddSnapshot ==
    [][Step("imgOnload") =>
           /\ history' # <<>>
           /\ history'[Len(history')].arr = layers.arr
      ]_vars

(***************************************************************************)
(* Properties of the project loader                                        *)
(***************************************************************************)
\* the step is the selection of a project file that loadProject rejects
PicksRejectedFile ==
    /\ Step("handleLoadProject") /\ last'.rec
    /\ ~loadProject(loading'[Len(loading')]).ok

\* the step is the rejection of a project load
LoadRejectedStep == Step("loadSettled") /\ ~last'.ok

\* C27 (SpecLoad): loading a project file without a `layers` key, with a
\* `layers` that is not an array, or that is not valid JSON is rejected with
\* an error, and leaves the live layer set and the selection as they were;
\* the only change of state is one pre-load snapshot on the past stack.
C27_RejectedLoadOnlySnapshots ==
    [][/\ PicksRejectedFile =>
              /\ Len(history') = Min(Len(history) + 1, HISTORY_LIMIT)
              /\ history'[Len(history')] = layers
              /\ UNCHANGED <<layers, selectedLayerId, redoStack>>
       /\ LoadRejectedStep =>
              /\ error' # Null
              /\ UNCHANGED <<layers, selectedLayerId, history, redoStack>>
      ]_vars

\* a layer-shaped record: it has the fields of a CanvasLayer
layerShaped(l) == LayerFields \subseteq DOMAIN l

\* C28 (SpecLoad): a project file is accepted only when `layers` is present
\* and is an array whose elements are all layer-shaped records; a file whose
\* `layers` array has an element that is not a layer record is rejected
\* with a structural-validation error.
C28_LoadValidatesElements ==
    [][(Step("loadSettled") /\ last'.readable) =>
           LET v == IF last'.file.json = Null THEN [type |-> "undefined"]
                    ELSE get(last'.file.json, "layers")
               wellFormed == /\ v.type = "array"
                             /\ \A i \in 1..Len(v.items) : layerShaped(v.items[i])
           IN
           /\ last'.ok => wellFormed
           /\ (v.type = "array" /\ ~wellFormed) =>
                  /\ ~last'.ok
                  /\ error' # Null
                  /\ error'.details = "Invalid .vmix project file structure"
      ]_vars

(***************************************************************************)
(* Properties of the workflow                                              *)
(***************************************************************************)
\* C29 (SpecWorkflow): while a composite or generation request is in flight
\* (stage analyzing or executing) the layer set is not mutated: no event,
\* the completion of an earlier image load or project load included,
\* changes the layers before the request has returned or failed.
C29_LayersFrozenWhileInFlight ==
    [][(stage \in {"analyzing", "executing"} /\ WorkflowRequests # {})
           => UNCHANGED layers]_vars

\* C30 (SpecWorkflow): at most one request of the workflow (for suggestions
\* or for the execution) is in flight at any time: a new one starts only
\* after the previous one has returned or failed.
C30_OneWorkflowRequest == Cardinality(WorkflowRequests) <= 1

\* the step is the failure of a call to the generation service
FailedCallStep ==
    /\ last'.op \in {"suggestionsSettled", "executeSettled", "improveSettled"}
    /\ ~last'.ok

\* the number of calls of one kind in flight
InFlight(reqs, call) ==
    Cardinality({i \in 1..Len(reqs) : reqs[i].call = call})

\* C31 (SpecWorkflow): whenever a call to the generation service fails
\* (suggestions, generation or edit of an image, prompt improvement), an
\* error record with a reference id is set and the workflow stage becomes
\* idle; the failed call is not sent again.
C31_FailedCallSetsErrorAndIdle ==
    [][FailedCallStep =>
           /\ error' # Null
           /\ error'.id \notin UsedErrorIds
           /\ error'.message \in {"Analysis Failed", "Execution Failed",
                                  "Failed to improve prompt"}
           /\ stage' = "idle"
           /\ Len(requests') = Len(requests) - 1
           /\ \A call \in {"generateCreativeSuggestions", "execute", "improvePrompt"} :
                  InFlight(requests', call) <= InFlight(requests, call)
      ]_vars

\* the execution failed in stage executing: the stage is idle, an error is
\* shown and no call is in flight
C31_Witness ==
    /\ last.op = "executeSettled" /\ ~last.ok
    /\ stage = "idle"
    /\ error # Null /\ error.message = "Execution Failed"
    /\ requests = <<>>

\* C32 (SpecComposite): a composite operation always terminates: it returns
\* the image or, when the image of a layer fails to decode, fails with an
\* error that reaches executeTask; an execution in flight therefore always
\* ends and the workflow leaves stage executing.
C32_ExecutionEnds ==
    (stage = "executing" /\ InFlight(requests, "execute") > 0)
        ~> (InFlight(requests, "execute") = 0)

(***************************************************************************)
(* Properties of the selection and of the frame of the operations          *)
(***************************************************************************)
\* C33 (SpecLoad): in every reachable state the selection is null or the id
\* of a layer of the live layer set, whatever removals, undos, redos and
\* project loads happened.
C33_SelectionIsLiveLayer ==
    selectedLayerId = NullId \/ selectedLayer # Null

\* C34 (SpecLayers): an operation that leaves the layer set unchanged does
\* not touch the history: a reorder that changes no layer (the top layer
\* moved up, the bottom layer moved down) neither pushes a snapshot onto the
\* past stack nor empties the redo stack.
C34_IdleReorderKeepsHistory ==
    [][(Step("reorderLayer") /\ layers'.arr = layers.arr)
           => UNCHANGED <<history, redoStack>>]_vars

\* C35 (SpecLoad): an undo right after a successful project load restores
\* the layer set that was live immediately before the loaded layers
\* replaced it, whatever happened between the selection of the file and the
\* end of the load.
C35_UndoAfterLoadRestores ==
    [][(Step("loadSettled") /\ last'.ok) => AfterOneUndo = layers.arr]_vars

\* C36 (SpecMove): a pointer-move of a drag changes only the x and y of the
\* selected layer and a pointer-move of a resize changes only its scale:
\* every other layer, every other field, the order and length of the array,
\* the selection and both history stacks are unchanged; a pointer-move
\* without a session or without a selection changes nothing.
C36_MoveChangesOnlyItsFields ==
    [][Step("pointerMove") =>
           /\ UNCHANGED <<selectedLayerId, history, redoStack, activeOperation>>
           /\ Len(layers'.arr) = Len(layers.arr)
           /\ \A i \in 1..Len(layers.arr) :
                  LET l == layers.arr[i]
                      m == layers'.arr[i] IN
                  IF l.id = selectedLayerId /\ activeOperation = "drag"
                  THEN m = [l EXCEPT !.x = m.x, !.y = m.y]
                  ELSE IF l.id = selectedLayerId /\ activeOperation = "resize"
                  THEN m = [l EXCEPT !.scale = m.scale]
                  ELSE m = l
           /\ (activeOperation = "none" \/ selectedLayerId = NullId)
                  => UNCHANGED layers
      ]_vars

\* a pointer-move of a drag moved the selected one of two layers and left
\* the other as it was at pointer-down
C36_Witness ==
    /\ last.op = "pointerMove" /\ activeOperation = "drag"
    /\ Len(layers.arr) = 2
    /\ Len(interactionStart.initialLayers.arr) = 2
    /\ \E i \in 1..2 :
          LET l == layers.arr[i]
              before == interactionStart.initialLayers.arr[i] IN
          /\ l.id = selectedLayerId
          /\ l.x # before.x /\ l.y # before.y
          /\ l = [before EXCEPT !.x = l.x, !.y = l.y]
          /\ layers.arr[3 - i] = interactionStart.initialLayers.arr[3 - i]

\* C37 (SpecWorkflow): the workflow stage only advances in order, under
\* every interleaving of the completions of the asynchronous calls:
\* 'suggesting' is entered only from 'analyzing', 'executing' only from
\* 'suggesting', 'finished' only from 'executing'.
C37_StageAdvancesInOrder ==
    [][/\ (stage' = "suggesting" /\ stage # "suggesting") => stage = "analyzing"
       /\ (stage' = "executing" /\ stage # "executing") => stage = "suggesting"
       /\ (stage' = "finished" /\ stage # "finished") => stage = "executing"
      ]_vars

\* C38 (SpecWorkflow): the self-clear timer of an error clears only that
\* error: when the timer of an earlier error fires while a later error is
\* displayed, the later error stays displayed.
C38_TimerClearsOwnError ==
    [][(Step("errorTimeout") /\ error # Null /\ error.id # last'.id)
           => error' = error]_vars

====
